---- MODULE Spec2Model ----
(***************************************************************************)
(* Event model of GDCore (Core/GDCore/Events/Event.h): gd::BaseEvent, the  *)
(* shared/weak pointer ownership of events, and the event code generation, *)
(* preprocessing and serialization passes that work on event lists.        *)
(*                                                                         *)
(* Two views of the program are modelled:                                  *)
(*  - the object graph (Spec): events are heap objects held through        *)
(*    boost::shared_ptr, sub-event vectors hold shared pointers and        *)
(*    originalEvent is a boost::weak_ptr;                                  *)
(*  - the passes over an event list (SpecGen, SpecNest, SpecGuard,         *)
(*    SpecXml, SpecPre): an event list is a value (a sequence of records)  *)
(*    and each pass is a function of it.                                   *)
(***************************************************************************)
EXTENDS Integers, Sequences, FiniteSets, TLC

VARIABLES
    \* ---- object graph (Spec) ----
    nextId,         \* number of BaseEvent objects constructed so far + 1
    alive,          \* objects constructed and not yet destroyed
    class,          \* the class the object is an instance of
    type,           \* BaseEvent::type
    disabled,       \* BaseEvent::disabled
    events,         \* the sub-event vector an object of class "Standard" owns
    badSubEvents,   \* static BaseEvent::badSubEvents
    originalEvent,  \* BaseEvent::originalEvent (weak pointer), NoEvent if empty
    held,           \* objects a caller holds a BaseEventSPtr to
    remembered,     \* history: the argument of the CloneRememberingOriginalEvent call that made
                    \* the object, until its originalEvent is assigned again
    cloneOf,        \* history: the object Clone() was called on to make the object
    \* ---- passes over an event list (SpecGen, SpecNest, SpecGuard, SpecXml, SpecPre) ----
    list,           \* the event list handed to the pass
    out,            \* result of the last pass run on list
    scene           \* number of objects in the scene's object group

heapVars == <<nextId, alive, class, type, disabled, events, badSubEvents, originalEvent,
              held, remembered, cloneOf>>
passVars == <<list, out, scene>>
vars == <<heapVars, passVars>>

(***************************************************************************)
(* Bounds of the model.                                                    *)
(***************************************************************************)
\* events in a list handed to the code generator, sub-events included
MaxGenEvents == 2
\* instructions (conditions and actions) in such a list, all events together
MaxGenInstr == 3

\* events in a tree of enabled standard events handed to the code generator
MaxNestEvents == 3
\* instructions (conditions and actions) in such a tree
MaxNestInstr == 4

\* BaseEvent objects constructed in a run of the object graph
MaxObjects == 2
\* pointers held in sub-event vectors, all vectors together
MaxSubEvents == 2
\* events in a list handed to the preprocessing pass, sub-events included
MaxPreEvents == 3
\* objects in the object group of the scene
MaxGroupObjects == 2
\* events in the event tree that is saved and loaded
MaxXmlEvents == 4
\* conditions of the event whose guard is evaluated
MaxConditions == 3

Max(S) == CHOOSE x \in S : \A y \in S : y <= x

\* Objects are named by the order of their construction; a name is never
\* given twice, as a destroyed object's control block is never reused.
Ids == 1..MaxObjects
\* An empty pointer.
NoEvent == 0

(***************************************************************************)
(* Event lists as values.  An event is a record                            *)
(*   type        BaseEvent::type                                           *)
(*   disabled    BaseEvent::disabled                                       *)
(*   conditions, actions   the instruction vectors of the event            *)
(*   events      its sub-events                                            *)
(* and an instruction is [type, inverted, parameters].                     *)
(***************************************************************************)
Instruction(t, inv, params) == [type |-> t, inverted |-> inv, parameters |-> params]

Event(t, d, conds, acts, subs) ==
    [type |-> t, disabled |-> d, conditions |-> conds, actions |-> acts, events |-> subs]

\* Event type ids the platform registers, and the instruction ids the
\* extension registry knows (both registries are consulted by id).
RegisteredEventTypes == {"Comment", "Standard", "Group"}
RegisteredConditions == {"KeyPressed", "VarEquals"}
RegisteredActions == {"SetVar"}

\* The class an event of a given type id is an instance of.  "Standard" and
\* "Group" are classes derived from BaseEvent; a comment, and an event whose
\* type id no extension registers, has the behaviour BaseEvent itself gives.
ClassOf(t) == IF t \in {"Standard", "Group"} THEN t ELSE "Base"

BaseEvent_IsExecutable == FALSE
IsExecutable(e) == IF ClassOf(e.type) = "Base" THEN BaseEvent_IsExecutable ELSE TRUE

BaseEvent_CanHaveSubEvents == FALSE
CanHaveSubEvents(e) == IF ClassOf(e.type) = "Standard" THEN TRUE ELSE BaseEvent_CanHaveSubEvents

\* Mutation of IsDisabled: the flag is never reported.
IsDisabled_NeverSet(e) == FALSE
IsDisabled(e) == e.disabled

\* Paths name the events of a list: <<i>> is the i-th event, <<i, j>> its
\* j-th sub-event, and so on.
RECURSIVE Paths(_)
Paths(l) ==
    UNION { {<<i>>} \cup { <<i>> \o p : p \in Paths(l[i].events) } : i \in 1..Len(l) }

RECURSIVE EventAt(_, _)
EventAt(l, p) ==
    IF Len(p) = 1 THEN l[p[1]] ELSE EventAt(l[p[1]].events, Tail(p))

IsPrefix(p, q) == Len(p) <= Len(q) /\ SubSeq(q, 1, Len(p)) = p

RECURSIVE CountEvents(_)
CountEvents(l) ==
    IF l = <<>> THEN 0 ELSE 1 + CountEvents(Head(l).events) + CountEvents(Tail(l))

RECURSIVE CountInstr(_)
CountInstr(l) ==
    IF l = <<>> THEN 0
    ELSE Len(Head(l).conditions) + Len(Head(l).actions)
         + CountInstr(Head(l).events) + CountInstr(Tail(l))

(***************************************************************************)
(* Code generation.  Emitted code is a sequence of tokens; every token is  *)
(* a record of the same shape.                                             *)
(*   "{" "}"   scope begin / end                                           *)
(*   "cond"    code of one condition: assigns condition<idx>IsTrue         *)
(*   "if"      if ( condition<pred[1]>IsTrue && ... )                      *)
(*   "act"     code of one action                                          *)
(***************************************************************************)
NoTok == [op |-> "", at |-> <<>>, idx |-> 0, type |-> "", inverted |-> FALSE, pred |-> <<>>]
ScopeBegin == [NoTok EXCEPT !.op = "{"]
ScopeEnd == [NoTok EXCEPT !.op = "}"]
CondTok(at, i, c) ==
    [NoTok EXCEPT !.op = "cond", !.at = at, !.idx = i, !.type = c.type, !.inverted = c.inverted]
ActTok(at, i, a) == [NoTok EXCEPT !.op = "act", !.at = at, !.idx = i, !.type = a.type]
IfTok(pred) == [NoTok EXCEPT !.op = "if", !.pred = pred]

Diagnostic(err, at, i) == [error |-> err, at |-> at, idx |-> i]

NoCode == [code |-> <<>>, diags |-> <<>>, calls |-> {}]

\* Code of a conditions list: condition number i (from 0) stores its result,
\* negated when the condition is inverted, in condition<i>IsTrue.  A
\* condition of an unregistered type emits nothing and leaves a diagnostic.
RECURSIVE ConditionsCodeFrom(_, _, _)
ConditionsCodeFrom(conditions, at, i) ==
    IF i > Len(conditions) THEN NoCode
    ELSE LET rest == ConditionsCodeFrom(conditions, at, i + 1)
             c == conditions[i]
         IN IF c.type \in RegisteredConditions
            THEN [rest EXCEPT !.code = <<CondTok(at, i - 1, c)>> \o rest.code]
            ELSE [rest EXCEPT !.diags =
                     <<Diagnostic("UnresolvedInstructionId", at, i - 1)>> \o rest.diags]

GenerateConditionsListCode(conditions, at) == ConditionsCodeFrom(conditions, at, 1)

RECURSIVE ActionsCodeFrom(_, _, _)
ActionsCodeFrom(actions, at, i) ==
    IF i > Len(actions) THEN NoCode
    ELSE LET rest == ActionsCodeFrom(actions, at, i + 1)
             a == actions[i]
         IN IF a.type \in RegisteredActions
            THEN [rest EXCEPT !.code = <<ActTok(at, i - 1, a)>> \o rest.code]
            ELSE [rest EXCEPT !.diags =
                     <<Diagnostic("UnresolvedInstructionId", at, i - 1)>> \o rest.diags]

GenerateActionsListCode(actions, at) == ActionsCodeFrom(actions, at, 1)

\* Mutation of IfPredicat: the loop starts at the second condition.
IfPredicat_SkipsFirst(conditions) == [i \in 1..(Len(conditions) - 1) |-> i]

\* ifPredicat of the implementation example: one term condition<i>IsTrue
\* for every i < conditions.size(), joined by &&.
IfPredicat(conditions) == [i \in 1..Len(conditions) |-> i - 1]

RECURSIVE GenerateEventsListCode(_, _)

\* BaseEvent::GenerateEventCode returns the empty string.
BaseEvent_GenerateEventCode == <<>>

\* Mutation of StandardEvent_GenerateEventCode: the block is closed before
\* the sub-events are emitted.
StandardEvent_GenerateEventCode_ClosesEarly(e, at) ==
    LET c == GenerateConditionsListCode(e.conditions, at)
        a == GenerateActionsListCode(e.actions, at)
        s == IF e.events # <<>> THEN GenerateEventsListCode(e.events, at) ELSE NoCode
    IN [code  |-> c.code
                  \o (IF e.conditions # <<>>
                      THEN <<IfTok([i \in 1..Len(e.conditions) |-> i - 1])>> ELSE <<>>)
                  \o <<ScopeBegin>>
                  \o a.code
                  \o <<ScopeEnd>>
                  \o (IF e.events # <<>>
                      THEN <<ScopeBegin>> \o s.code \o <<ScopeEnd>>
                      ELSE <<>>),
        diags |-> c.diags \o a.diags \o s.diags,
        calls |-> s.calls]

\* The implementation example documented with BaseEvent::GenerateEventCode,
\* which the events with conditions, actions and sub-events follow.
StandardEvent_GenerateEventCode(e, at) ==
    LET c == GenerateConditionsListCode(e.conditions, at)
        ifPredicat == IfPredicat(e.conditions)
        a == GenerateActionsListCode(e.actions, at)
        s == IF e.events # <<>> THEN GenerateEventsListCode(e.events, at) ELSE NoCode
    IN [code  |-> c.code
                  \o (IF ifPredicat # <<>> THEN <<IfTok(ifPredicat)>> ELSE <<>>)
                  \o <<ScopeBegin>>
                  \o a.code
                  \o (IF e.events # <<>>
                      THEN <<ScopeBegin>> \o s.code \o <<ScopeEnd>>
                      ELSE <<>>)
                  \o <<ScopeEnd>>,
        diags |-> c.diags \o a.diags \o s.diags,
        calls |-> s.calls]

GenerateEventCode(e, at) ==
    IF ClassOf(e.type) = "Standard"
    THEN StandardEvent_GenerateEventCode(e, at)
    ELSE [NoCode EXCEPT !.code = BaseEvent_GenerateEventCode]

\* The generator's walk over an event list: a disabled or non-executable
\* event is skipped with its whole subtree, an event of an unregistered
\* type leaves a diagnostic, and every other event is generated in a scope
\* of its own.
RECURSIVE EventsCodeFrom(_, _, _)
EventsCodeFrom(l, at, i) ==
    IF i > Len(l) THEN NoCode
    ELSE LET rest == EventsCodeFrom(l, at, i + 1)
             e == l[i]
             here == at \o <<i>>
         IN IF IsDisabled(e) THEN rest
            ELSE IF e.type \notin RegisteredEventTypes
            THEN [rest EXCEPT !.diags =
                     <<Diagnostic("UnresolvedEventTypeId", here, 0)>> \o rest.diags]
            ELSE IF ~IsExecutable(e) THEN rest
            ELSE LET g == GenerateEventCode(e, here)
                 IN [code  |-> <<ScopeBegin>> \o g.code \o <<ScopeEnd>> \o rest.code,
                     diags |-> g.diags \o rest.diags,
                     calls |-> {here} \cup g.calls \cup rest.calls]

GenerateEventsListCode(l, at) == EventsCodeFrom(l, at, 1)

(***************************************************************************)
(* Meaning of emitted code: the actions it runs, in order, when the        *)
(* registered conditions have the truth values env gives them.  A          *)
(* condition variable that no emitted code assigns holds an indeterminate  *)
(* value; u is the value read from it.                                     *)
(***************************************************************************)
Assign(scope, v, b) == {p \in scope : p[1] # v} \cup {<<v, b>>}

DeclaredIn(scopes, v) == {d \in 1..Len(scopes) : \E p \in scopes[d] : p[1] = v}

ValueOf(scopes, v, u) ==
    IF DeclaredIn(scopes, v) = {} THEN u
    ELSE LET d == Max(DeclaredIn(scopes, v))
         IN (CHOOSE p \in scopes[d] : p[1] = v)[2]

PredHolds(scopes, pred, u) == \A k \in 1..Len(pred) : ValueOf(scopes, pred[k], u)

\* skip > 0: inside a block whose if predicate is false, skip levels deep.
RECURSIVE Run(_, _, _, _, _, _, _)
Run(code, i, scopes, skip, trace, env, u) ==
    IF i > Len(code) THEN trace
    ELSE LET t == code[i]
         IN IF skip > 0
            THEN Run(code, i + 1, scopes,
                     IF t.op = "{" THEN skip + 1
                     ELSE IF t.op = "}" THEN skip - 1 ELSE skip,
                     trace, env, u)
            ELSE IF t.op = "{"
            THEN Run(code, i + 1, Append(scopes, {}), 0, trace, env, u)
            ELSE IF t.op = "}"
            THEN Run(code, i + 1,
                     IF Len(scopes) > 1 THEN SubSeq(scopes, 1, Len(scopes) - 1) ELSE scopes,
                     0, trace, env, u)
            ELSE IF t.op = "cond"
            THEN Run(code, i + 1,
                     [scopes EXCEPT ![Len(scopes)] = Assign(@, t.idx, env[t.type] # t.inverted)],
                     0, trace, env, u)
            ELSE IF t.op = "act"
            THEN Run(code, i + 1, scopes, 0, Append(trace, t), env, u)
            ELSE \* "if": guards the statement that follows it
                 IF PredHolds(scopes, t.pred, u)
                 THEN Run(code, i + 1, scopes, 0, trace, env, u)
                 ELSE IF i < Len(code) /\ code[i + 1].op = "{"
                 THEN Run(code, i + 2, scopes, 1, trace, env, u)
                 ELSE Run(code, i + 2, scopes, 0, trace, env, u)

Execute(code, env, u) == Run(code, 1, <<{}>>, 0, <<>>, env, u)

Envs == [RegisteredConditions -> BOOLEAN]


(***************************************************************************)
(* Building an event list: what the events editor and the loader do        *)
(* through the accessors of BaseEvent.                                     *)
(***************************************************************************)
\* push_back of event e on the sub-event vector of the event at path p
\* (p = <<>>: on the list itself).
RECURSIVE PushBackAt(_, _, _)
PushBackAt(l, p, e) ==
    IF p = <<>> THEN Append(l, e)
    ELSE LET sub == PushBackAt(l[p[1]].events, Tail(p), e)
         IN [l EXCEPT ![p[1]] = [l[p[1]] EXCEPT !.events = sub]]

\* push_back of instruction ins on a conditions or actions vector of the
\* event at path p.
RECURSIVE PushInstructionAt(_, _, _, _)
PushInstructionAt(l, p, which, ins) ==
    IF Len(p) = 1
    THEN IF which = "conditions"
         THEN [l EXCEPT ![p[1]] = [l[p[1]] EXCEPT !.conditions = Append(@, ins)]]
         ELSE [l EXCEPT ![p[1]] = [l[p[1]] EXCEPT !.actions = Append(@, ins)]]
    ELSE LET sub == PushInstructionAt(l[p[1]].events, Tail(p), which, ins)
         IN [l EXCEPT ![p[1]] = [l[p[1]] EXCEPT !.events = sub]]

\* Lists that can take a new event: the top-level list and the sub-event
\* vector of every event that can have sub-events.
OpenLists(l) == {<<>>} \cup {p \in Paths(l) : CanHaveSubEvents(EventAt(l, p))}

\* Events that expose instruction vectors.
WithInstructions(l) == {p \in Paths(l) : ClassOf(EventAt(l, p).type) = "Standard"}

NoOut == [done |-> FALSE, code |-> <<>>, diags |-> <<>>, calls |-> {}]

(***************************************************************************)
(* SpecGen: event lists of comments, standard events and events of an      *)
(* unregistered type, with registered and unregistered instructions, are   *)
(* built and handed to the code generator.                                 *)
(***************************************************************************)
GenEventTypes == {"Comment", "Standard", "Mystery"}
GenConditions == {Instruction(t, FALSE, <<>>) : t \in {"KeyPressed", "NoSuchCondition"}}
GenActions == {Instruction(t, FALSE, <<>>) : t \in {"SetVar", "NoSuchAction"}}

HeapInit ==
    /\ nextId = 1
    /\ alive = {}
    /\ class = [n \in Ids |-> ""]
    /\ type = [n \in Ids |-> ""]
    /\ disabled = [n \in Ids |-> FALSE]
    /\ events = [n \in Ids |-> <<>>]
    /\ badSubEvents = <<>>
    /\ originalEvent = [n \in Ids |-> NoEvent]
    /\ held = {}
    /\ remembered = [n \in Ids |-> NoEvent]
    /\ cloneOf = [n \in Ids |-> NoEvent]

InitGen ==
    /\ HeapInit
    /\ list = <<>>
    /\ out = NoOut
    /\ scene = 0

GenAddEvent ==
    /\ CountEvents(list) < MaxGenEvents
    /\ \E p \in OpenLists(list), t \in GenEventTypes, d \in BOOLEAN :
          list' = PushBackAt(list, p, Event(t, d, <<>>, <<>>, <<>>))
    /\ out' = NoOut
    /\ UNCHANGED <<heapVars, scene>>

GenAddCondition ==
    /\ CountInstr(list) < MaxGenInstr
    /\ \E p \in WithInstructions(list), c \in GenConditions :
          list' = PushInstructionAt(list, p, "conditions", c)
    /\ out' = NoOut
    /\ UNCHANGED <<heapVars, scene>>

GenAddAction ==
    /\ CountInstr(list) < MaxGenInstr
    /\ \E p \in WithInstructions(list), a \in GenActions :
          list' = PushInstructionAt(list, p, "actions", a)
    /\ out' = NoOut
    /\ UNCHANGED <<heapVars, scene>>

GenGenerate ==
    /\ ~out.done
    /\ LET g == GenerateEventsListCode(list, <<>>)
       IN out' = [done |-> TRUE, code |-> g.code, diags |-> g.diags, calls |-> g.calls]
    /\ UNCHANGED <<heapVars, list, scene>>

NextGen == GenAddEvent \/ GenAddCondition \/ GenAddAction \/ GenGenerate

SpecGen == InitGen /\ [][NextGen]_vars

(***************************************************************************)
(* What an event list means: the actions that run, in document order.  An  *)
(* event runs its actions and then its sub-events when it is enabled and   *)
(* executable and every one of its conditions holds; unresolved is the     *)
(* value a condition of an unregistered type counts for.                   *)
(***************************************************************************)
ConditionHolds(c, env, unresolved) ==
    IF c.type \in RegisteredConditions THEN env[c.type] # c.inverted ELSE unresolved

Guard(conditions, env, unresolved) ==
    \A i \in 1..Len(conditions) : ConditionHolds(conditions[i], env, unresolved)

RECURSIVE ActionsRun(_, _, _)
ActionsRun(actions, at, i) ==
    IF i > Len(actions) THEN <<>>
    ELSE (IF actions[i].type \in RegisteredActions
          THEN <<ActTok(at, i - 1, actions[i])>> ELSE <<>>)
         \o ActionsRun(actions, at, i + 1)

RECURSIVE EventsRun(_, _, _, _, _)
EventsRun(l, at, i, env, unresolved) ==
    IF i > Len(l) THEN <<>>
    ELSE LET e == l[i]
             here == at \o <<i>>
             mine == IF \/ e.disabled
                        \/ e.type \notin RegisteredEventTypes
                        \/ ClassOf(e.type) # "Standard"
                        \/ ~Guard(e.conditions, env, unresolved)
                     THEN <<>>
                     ELSE ActionsRun(e.actions, here, 1)
                          \o EventsRun(e.events, here, 1, env, unresolved)
         IN mine \o EventsRun(l, at, i + 1, env, unresolved)

\* Events the generator must skip with their subtree.
Skipped(l) == {p \in Paths(l) : EventAt(l, p).disabled \/ ClassOf(EventAt(l, p).type) = "Base"}

CodeTokens(code) == {code[k] : k \in 1..Len(code)}

\* C1: code generation emits no code for a disabled or non-executable event
\* nor for any of its descendants, and never calls GenerateEventCode on them.
C1_SkippedSubtreeEmitsNothing ==
    out.done =>
        \A n \in Skipped(list) :
            /\ \A t \in CodeTokens(out.code) : t.op \in {"cond", "act"} => ~IsPrefix(n, t.at)
            /\ \A m \in out.calls : ~IsPrefix(n, m)

\* C1 witness: the generator ran over a list with a disabled event whose
\* enabled sub-event has a registered action.
C1_Witness ==
    /\ out.done
    /\ \E n \in Paths(list) : \E m \in Paths(list) :
          /\ EventAt(list, n).disabled
          /\ m # n /\ IsPrefix(n, m)
          /\ ~EventAt(list, m).disabled
          /\ \E k \in 1..Len(EventAt(list, m).actions) :
                EventAt(list, m).actions[k].type \in RegisteredActions

(***************************************************************************)
(* SpecNest: trees of enabled standard events with registered and          *)
(* unregistered conditions and with actions are built and handed to the    *)
(* code generator.                                                         *)
(***************************************************************************)
NestConditions == {Instruction(t, FALSE, <<>>) : t \in {"KeyPressed", "NoSuchCondition"}}
NestActions == {Instruction("SetVar", FALSE, <<>>)}

InitNest ==
    /\ HeapInit
    /\ list = <<>>
    /\ out = NoOut
    /\ scene = 0

NestAddEvent ==
    /\ CountEvents(list) < MaxNestEvents
    /\ \E p \in OpenLists(list) :
          list' = PushBackAt(list, p, Event("Standard", FALSE, <<>>, <<>>, <<>>))
    /\ out' = NoOut
    /\ UNCHANGED <<heapVars, scene>>

NestAddCondition ==
    /\ CountInstr(list) < MaxNestInstr
    /\ \E p \in WithInstructions(list), c \in NestConditions :
          list' = PushInstructionAt(list, p, "conditions", c)
    /\ out' = NoOut
    /\ UNCHANGED <<heapVars, scene>>

NestAddAction ==
    /\ CountInstr(list) < MaxNestInstr
    /\ \E p \in WithInstructions(list), a \in NestActions :
          list' = PushInstructionAt(list, p, "actions", a)
    /\ out' = NoOut
    /\ UNCHANGED <<heapVars, scene>>

NestGenerate ==
    /\ ~out.done
    /\ LET g == GenerateEventsListCode(list, <<>>)
       IN out' = [done |-> TRUE, code |-> g.code, diags |-> g.diags, calls |-> g.calls]
    /\ UNCHANGED <<heapVars, list, scene>>

NextNest == NestAddEvent \/ NestAddCondition \/ NestAddAction \/ NestGenerate

SpecNest == InitNest /\ [][NextNest]_vars

\* The conditions of a list whose type is not registered, each named by the
\* path of its event and its place in the conditions vector.
UnresolvedConditions(l) ==
    UNION { {<<p, k>> : k \in {j \in 1..Len(EventAt(l, p).conditions) :
                                  EventAt(l, p).conditions[j].type \notin RegisteredConditions}}
            : p \in Paths(l) }

\* The combined condition of the event at path at: the AND of its
\* conditions, where the term of an unregistered condition has the value
\* val gives it.
CombinedCondition(conditions, at, env, val) ==
    \A i \in 1..Len(conditions) :
        IF conditions[i].type \in RegisteredConditions
        THEN env[conditions[i].type] # conditions[i].inverted
        ELSE val[<<at, i>>]

\* The actions that run, in order, when every enabled standard event is a
\* block guarded by its combined condition that holds the event's actions in
\* list order followed by its sub-events in list order.
RECURSIVE NestedBlocksRun(_, _, _, _, _)
NestedBlocksRun(l, at, i, env, val) ==
    IF i > Len(l) THEN <<>>
    ELSE LET e == l[i]
             here == at \o <<i>>
             mine == IF \/ e.disabled
                        \/ ClassOf(e.type) # "Standard"
                        \/ ~CombinedCondition(e.conditions, here, env, val)
                     THEN <<>>
                     ELSE ActionsRun(e.actions, here, 1)
                          \o NestedBlocksRun(e.events, here, 1, env, val)
         IN mine \o NestedBlocksRun(l, at, i + 1, env, val)

\* C4: for every enabled executable event the emitted code runs the
\* event's actions, in list order, inside the block its combined condition
\* guards, and then, inside that same block, each sub-event in list order;
\* no sub-event runs outside its parent's block, and a sub-event without
\* conditions is entered whenever its parent's block is.  This holds for
\* every event list, whatever value the term of an unregistered condition
\* has in the combined condition.
C4_SubEventsNestedInGuardedBlock ==
    out.done =>
        \A u \in BOOLEAN :
            \E val \in [UnresolvedConditions(list) -> BOOLEAN] :
                \A env \in Envs :
                    Execute(out.code, env, u) = NestedBlocksRun(list, <<>>, 1, env, val)

\* C4 witness: the event with condition KeyPressed, action SetVar and two
\* sub-events without conditions, each with action SetVar, was generated;
\* its code runs the three actions, the parent's first and then those of the
\* sub-events in list order, when KeyPressed holds, and nothing otherwise.
C4_Witness ==
    /\ out.done
    /\ list = << Event("Standard", FALSE,
                       <<Instruction("KeyPressed", FALSE, <<>>)>>,
                       <<Instruction("SetVar", FALSE, <<>>)>>,
                       << Event("Standard", FALSE, <<>>,
                                <<Instruction("SetVar", FALSE, <<>>)>>, <<>>),
                          Event("Standard", FALSE, <<>>,
                                <<Instruction("SetVar", FALSE, <<>>)>>, <<>>) >>) >>
    /\ \A env \in Envs : \A u \in BOOLEAN :
          Execute(out.code, env, u) =
              IF env["KeyPressed"]
              THEN << ActTok(<<1>>, 0, Instruction("SetVar", FALSE, <<>>)),
                      ActTok(<<1, 1>>, 0, Instruction("SetVar", FALSE, <<>>)),
                      ActTok(<<1, 2>>, 0, Instruction("SetVar", FALSE, <<>>)) >>
              ELSE <<>>

\* Unregistered instructions and event types the generator comes across.
RECURSIVE Unresolved(_, _)
Unresolved(l, i) ==
    IF i > Len(l) THEN 0
    ELSE LET e == l[i]
             mine == IF e.disabled THEN 0
                     ELSE IF e.type \notin RegisteredEventTypes THEN 1
                     ELSE IF ClassOf(e.type) # "Standard" THEN 0
                     ELSE Cardinality({k \in 1..Len(e.conditions) :
                                          e.conditions[k].type \notin RegisteredConditions})
                          + Cardinality({k \in 1..Len(e.actions) :
                                          e.actions[k].type \notin RegisteredActions})
                          + Unresolved(e.events, 1)
         IN mine + Unresolved(l, i + 1)

\* C6: an unregistered instruction or event type emits no code and leaves
\* one diagnostic, and everything else is generated as it would be if the
\* unregistered one were absent.
C6_UnregisteredAsIfAbsent ==
    out.done =>
        /\ \A t \in CodeTokens(out.code) :
              /\ t.op = "cond" => t.type \in RegisteredConditions
              /\ t.op = "act" => t.type \in RegisteredActions
        /\ Len(out.diags) = Unresolved(list, 1)
        /\ \A env \in Envs : \A u \in BOOLEAN :
              Execute(out.code, env, u) = EventsRun(list, <<>>, 1, env, TRUE)

(***************************************************************************)
(* SpecGuard: one enabled standard event with one action; its conditions   *)
(* list is built from plain and inverted, registered and unregistered      *)
(* conditions, and the event is handed to the code generator.              *)
(***************************************************************************)
GuardConditions == {Instruction(t, inv, <<>>) :
                        t \in RegisteredConditions \cup {"NoSuchCondition"}, inv \in BOOLEAN}

InitGuard ==
    /\ HeapInit
    /\ list = << Event("Standard", FALSE, <<>>, <<Instruction("SetVar", FALSE, <<>>)>>, <<>>) >>
    /\ out = NoOut
    /\ scene = 0

GuardAddCondition ==
    /\ Len(list[1].conditions) < MaxConditions
    /\ \E c \in GuardConditions : list' = PushInstructionAt(list, <<1>>, "conditions", c)
    /\ out' = NoOut
    /\ UNCHANGED <<heapVars, scene>>

GuardGenerate ==
    /\ ~out.done
    /\ LET g == GenerateEventsListCode(list, <<>>)
       IN out' = [done |-> TRUE, code |-> g.code, diags |-> g.diags, calls |-> g.calls]
    /\ UNCHANGED <<heapVars, list, scene>>

NextGuard == GuardAddCondition \/ GuardGenerate

SpecGuard == InitGuard /\ [][NextGuard]_vars

Reorderings(n) == {f \in [1..n -> 1..n] : \A i, j \in 1..n : f[i] = f[j] => i = j}

\* Every condition of the list is of a registered type, so that every
\* condition of the list has a truth value.
ConditionsResolve(l) ==
    \A p \in Paths(l) : \A k \in 1..Len(EventAt(l, p).conditions) :
        EventAt(l, p).conditions[k].type \in RegisteredConditions

\* The guard of the generated event held: its action ran.
ActionRan(code, env, u) == Execute(code, env, u) # <<>>

\* C5: the guard of an event is the AND over its conditions of each
\* condition's truth value, negated when the condition is inverted; without
\* conditions it is true; and every reordering of the conditions gives the
\* same guard.
C5_GuardIsConjunction ==
    (out.done /\ ConditionsResolve(list)) =>
        LET cs == list[1].conditions
            Reordered(f) == << [list[1] EXCEPT !.conditions = [i \in 1..Len(cs) |-> cs[f[i]]]] >>
        IN \A env \in Envs : \A u \in BOOLEAN :
              /\ ActionRan(out.code, env, u)
                    = (\A i \in 1..Len(cs) : IF cs[i].inverted THEN ~env[cs[i].type]
                                                              ELSE env[cs[i].type])
              /\ \A f \in Reorderings(Len(cs)) :
                    ActionRan(GenerateEventsListCode(Reordered(f), <<>>).code, env, u)
                        = ActionRan(out.code, env, u)

\* C5 witness: the guard of the conditions [KeyPressed inverted, VarEquals]
\* was generated; with KeyPressed false it is the value of VarEquals.
C5_Witness ==
    /\ out.done
    /\ list[1].conditions = << Instruction("KeyPressed", TRUE, <<>>),
                               Instruction("VarEquals", FALSE, <<>>) >>
    /\ \A env \in Envs : ~env["KeyPressed"] =>
          ActionRan(out.code, env, FALSE) = env["VarEquals"]

(***************************************************************************)
(* The object graph.  Events are objects held through BaseEventSPtr        *)
(* (boost::shared_ptr): an object lives as long as a caller's pointer or a *)
(* sub-event vector holds it.  originalEvent is a boost::weak_ptr: it      *)
(* holds nothing.  The class of an object is fixed when it is constructed; *)
(* its type id is a data member anyone can set.                            *)
(***************************************************************************)
\* "Base": BaseEvent itself.  "Standard": a derived class that owns a
\* sub-events vector and overrides CanHaveSubEvents and GetSubEvents.
EventClasses == {"Base", "Standard"}
\* Type ids given to objects with SetType.
TypeIds == {"Comment", "Standard"}

Range(q) == {q[i] : i \in 1..Len(q)}

\* CanHaveSubEvents of the object n: a virtual call, decided by its class.
ObjectCanHaveSubEvents(n) ==
    IF class[n] = "Standard" THEN TRUE ELSE BaseEvent_CanHaveSubEvents

\* BaseEvent::GetSubEvents returns the static badSubEvents; an event that
\* can have sub-events overrides it to return the vector it owns.
GetSubEvents(n) ==
    IF ObjectCanHaveSubEvents(n) THEN events[n] ELSE badSubEvents

\* Mutation of Lock: the pointer is followed without asking whether the
\* object is still there.
Lock_Dangling(w) == w

\* weak_ptr::lock on an originalEvent pointer: the object, or nothing once
\* the object is destroyed.
Lock(w) == IF w \in alive THEN w ELSE NoEvent

\* Objects below n through the vectors the objects own.
RECURSIVE OwnedFrom(_, _)
OwnedFrom(S, ev) ==
    LET T == S \cup UNION {Range(ev[m]) : m \in S}
    IN IF T = S THEN S ELSE OwnedFrom(T, ev)

\* Objects n reports below itself through GetSubEvents, n included.
RECURSIVE ReportedFrom(_)
ReportedFrom(S) ==
    LET T == S \cup UNION {Range(GetSubEvents(m)) : m \in S}
    IN IF T = S THEN S ELSE ReportedFrom(T)

\* The objects a caller gets a pointer to from the objects of S: with
\* GetSubEvents()[i], and with originalEvent.lock(), originalEvent being a
\* public member.
RECURSIVE ReachFrom(_)
ReachFrom(S) ==
    LET T == S \cup UNION {Range(GetSubEvents(m)) : m \in S}
               \cup ({Lock(originalEvent[m]) : m \in S} \ {NoEvent})
    IN IF T = S THEN S ELSE ReachFrom(T)

\* The objects a caller has a pointer to: those it holds and those it gets
\* from them.
Reach == ReachFrom(held)

\* Pointers held in sub-event vectors, all vectors together.
RECURSIVE OwnedPointers(_)
OwnedPointers(n) == IF n = 0 THEN 0 ELSE Len(events[n]) + OwnedPointers(n - 1)
SubEventPointers == Len(badSubEvents) + OwnedPointers(MaxObjects)

\* shared_ptr reference counting: an object with no pointer left to it is
\* destroyed, and with it the pointers its own vector held.  Objects that
\* hold each other in a cycle keep each other alive.
RECURSIVE Sweep(_, _, _, _)
Sweep(S, h, ev, bad) ==
    LET dead == {n \in S : /\ n \notin h
                           /\ n \notin Range(bad)
                           /\ \A m \in S : n \notin Range(ev[m])}
    IN IF dead = {} THEN S ELSE Sweep(S \ dead, h, ev, bad)

\* The state after the pointers h, ev and bad are what is left.
Destroy(h, ev, bad) ==
    /\ alive' = Sweep(alive, h, ev, bad)
    /\ held' = h
    /\ badSubEvents' = bad
    /\ events' = [n \in Ids |-> IF n \in alive' THEN ev[n] ELSE <<>>]
    /\ class' = [n \in Ids |-> IF n \in alive' THEN class[n] ELSE ""]
    /\ type' = [n \in Ids |-> IF n \in alive' THEN type[n] ELSE ""]
    /\ disabled' = [n \in Ids |-> n \in alive' /\ disabled[n]]
    /\ originalEvent' = [n \in Ids |-> IF n \in alive' THEN originalEvent[n] ELSE NoEvent]
    /\ remembered' = [n \in Ids |-> IF n \in alive' THEN remembered[n] ELSE NoEvent]
    /\ cloneOf' = [n \in Ids |-> IF n \in alive' THEN cloneOf[n] ELSE NoEvent]

\* BaseEvent::BaseEvent, or the constructor of the derived class: a new
\* enabled event without type id; the caller holds it.
Construct(c) ==
    /\ nextId <= MaxObjects
    /\ nextId' = nextId + 1
    /\ alive' = alive \cup {nextId}
    /\ held' = held \cup {nextId}
    /\ class' = [class EXCEPT ![nextId] = c]
    /\ UNCHANGED <<type, disabled, events, badSubEvents, originalEvent, remembered,
                   cloneOf, passVars>>

\* n->SetType(type_): the type id changes, the class of the object does not.
BaseEvent_SetType(n, type_) ==
    /\ n \in Reach
    /\ type' = [type EXCEPT ![n] = type_]
    /\ UNCHANGED <<nextId, alive, class, disabled, events, badSubEvents, originalEvent,
                   held, remembered, cloneOf, passVars>>

\* n->SetDisabled(disable)
BaseEvent_SetDisabled(n, disable) ==
    /\ n \in Reach
    /\ disabled' = [disabled EXCEPT ![n] = disable]
    /\ UNCHANGED <<nextId, alive, class, type, events, badSubEvents, originalEvent,
                   held, remembered, cloneOf, passVars>>

\* The vector GetSubEvents of p returns becomes q.
WriteSubEvents(p, q) ==
    IF ObjectCanHaveSubEvents(p)
    THEN Destroy(held, [events EXCEPT ![p] = q], badSubEvents)
    ELSE Destroy(held, events, q)

\* p->GetSubEvents().push_back(x): the accessor hands out the vector, which
\* takes any pointer, x = p and a pointer it already holds included.
PushBackSubEvent(p, x) ==
    /\ p \in Reach /\ x \in Reach
    /\ SubEventPointers < MaxSubEvents
    /\ WriteSubEvents(p, Append(GetSubEvents(p), x))
    /\ UNCHANGED <<nextId, passVars>>

\* p->GetSubEvents().insert(begin + i - 1, x)
InsertSubEvent(p, i, x) ==
    /\ p \in Reach /\ x \in Reach
    /\ SubEventPointers < MaxSubEvents
    /\ i \in 1..Len(GetSubEvents(p))
    /\ WriteSubEvents(p, SubSeq(GetSubEvents(p), 1, i - 1) \o <<x>>
                         \o SubSeq(GetSubEvents(p), i, Len(GetSubEvents(p))))
    /\ UNCHANGED <<nextId, passVars>>

Without(q, i) == SubSeq(q, 1, i - 1) \o SubSeq(q, i + 1, Len(q))

\* p->GetSubEvents().erase(begin + i - 1)
EraseSubEvent(p, i) ==
    /\ p \in Reach /\ i \in 1..Len(GetSubEvents(p))
    /\ WriteSubEvents(p, Without(GetSubEvents(p), i))
    /\ UNCHANGED <<nextId, passVars>>

\* p->GetSubEvents().clear()
ClearSubEvents(p) ==
    /\ p \in Reach /\ GetSubEvents(p) # <<>>
    /\ WriteSubEvents(p, <<>>)
    /\ UNCHANGED <<nextId, passVars>>

\* The caller keeps a copy of a pointer it got from GetSubEvents()[i] or
\* from originalEvent.lock().
AcquireHandle(x) ==
    /\ x \in Reach \ held
    /\ held' = held \cup {x}
    /\ UNCHANGED <<nextId, alive, class, type, disabled, events, badSubEvents,
                   originalEvent, remembered, cloneOf, passVars>>

\* The caller drops its pointer to x.
ReleaseHandle(x) ==
    /\ x \in held
    /\ Destroy(held \ {x}, events, badSubEvents)
    /\ UNCHANGED <<nextId, passVars>>

\* Objects a copy of n constructs: n and what its own vector holds, deep.
\* Below an object that holds itself the copy never ends; the count is then
\* more than MaxObjects.
RECURSIVE CopySize(_, _)
RECURSIVE CopySizeOf(_, _, _)
CopySizeOf(q, i, fuel) ==
    IF i > Len(q) THEN 0 ELSE CopySize(q[i], fuel) + CopySizeOf(q, i + 1, fuel)
CopySize(n, fuel) ==
    IF fuel = 0 THEN MaxObjects + 1 ELSE 1 + CopySizeOf(events[n], 1, fuel - 1)

\* new BaseEvent(*this): the copy constructor copies every member,
\* originalEvent included; the copy of an event with sub-events holds clones
\* of the sub-events (CloneVectorOfEvents).  h is the graph so far; the copy
\* of n is object h.nextId.
RECURSIVE CopyEvent(_, _)
RECURSIVE CloneVectorOfEvents(_, _, _, _)
CloneVectorOfEvents(h, to, q, i) ==
    IF i > Len(q) THEN h
    ELSE LET c == h.nextId
             h1 == CopyEvent(h, q[i])
         IN CloneVectorOfEvents([h1 EXCEPT !.events[to] = Append(@, c)], to, q, i + 1)
CopyEvent(h, n) ==
    LET id == h.nextId
        h1 == [h EXCEPT !.nextId = id + 1,
                        !.alive = @ \cup {id},
                        !.class[id] = h.class[n],
                        !.type[id] = h.type[n],
                        !.disabled[id] = h.disabled[n],
                        !.originalEvent[id] = h.originalEvent[n],
                        !.cloneOf[id] = n]
    IN CloneVectorOfEvents(h1, id, h.events[n], 1)

Graph == [nextId |-> nextId, alive |-> alive, class |-> class, type |-> type,
          disabled |-> disabled,
          events |-> events, originalEvent |-> originalEvent, cloneOf |-> cloneOf]

\* x->Clone(); the caller holds the copy.
Clone(x) ==
    /\ x \in Reach
    /\ nextId + CopySize(x, MaxObjects) - 1 <= MaxObjects
    /\ LET h == CopyEvent(Graph, x)
       IN /\ nextId' = h.nextId
          /\ alive' = h.alive
          /\ class' = h.class
          /\ type' = h.type
          /\ disabled' = h.disabled
          /\ events' = h.events
          /\ originalEvent' = h.originalEvent
          /\ cloneOf' = h.cloneOf
          /\ held' = held \cup {nextId}
    /\ UNCHANGED <<badSubEvents, remembered, passVars>>

\* CloneRememberingOriginalEvent(event): a clone whose originalEvent points
\* to event.
CloneRememberingOriginalEvent(x) ==
    /\ x \in Reach
    /\ nextId + CopySize(x, MaxObjects) - 1 <= MaxObjects
    /\ LET h == CopyEvent(Graph, x)
       IN /\ nextId' = h.nextId
          /\ alive' = h.alive
          /\ class' = h.class
          /\ type' = h.type
          /\ disabled' = h.disabled
          /\ events' = h.events
          /\ originalEvent' = [h.originalEvent EXCEPT ![nextId] = x]
          /\ cloneOf' = h.cloneOf
          /\ remembered' = [remembered EXCEPT ![nextId] = x]
          /\ held' = held \cup {nextId}
    /\ UNCHANGED <<badSubEvents, passVars>>

\* n->originalEvent = x (x = NoEvent: n->originalEvent.reset()): the member
\* is public.  n no longer has the originalEvent a call of
\* CloneRememberingOriginalEvent gave it.
AssignOriginalEvent(n, x) ==
    /\ n \in Reach /\ x \in Reach \cup {NoEvent}
    /\ originalEvent[n] # x
    /\ originalEvent' = [originalEvent EXCEPT ![n] = x]
    /\ remembered' = [remembered EXCEPT ![n] = NoEvent]
    /\ UNCHANGED <<nextId, alive, class, type, disabled, events, badSubEvents, held,
                   cloneOf, passVars>>

\* *a = *b, the implicit BaseEvent::operator=: the data members of BaseEvent
\* are copied, the class of a and the vector it owns stay.
CopyAssign(a, b) ==
    /\ a \in Reach /\ b \in Reach /\ a # b
    /\ type' = [type EXCEPT ![a] = type[b]]
    /\ disabled' = [disabled EXCEPT ![a] = disabled[b]]
    /\ originalEvent' = [originalEvent EXCEPT ![a] = originalEvent[b]]
    /\ remembered' = [remembered EXCEPT ![a] = NoEvent]
    /\ UNCHANGED <<nextId, alive, class, events, badSubEvents, held, cloneOf, passVars>>

Init ==
    /\ HeapInit
    /\ list = <<>>
    /\ out = NoOut
    /\ scene = 0

Next ==
    \/ \E c \in EventClasses : Construct(c)
    \/ \E n \in Ids, t \in TypeIds : BaseEvent_SetType(n, t)
    \/ \E n \in Ids, d \in BOOLEAN : BaseEvent_SetDisabled(n, d)
    \/ \E p \in Ids, x \in Ids : PushBackSubEvent(p, x)
    \/ \E p \in Ids, i \in 1..MaxSubEvents, x \in Ids : InsertSubEvent(p, i, x)
    \/ \E p \in Ids, i \in 1..(MaxSubEvents + MaxObjects) : EraseSubEvent(p, i)
    \/ \E p \in Ids : ClearSubEvents(p)
    \/ \E x \in Ids : AcquireHandle(x)
    \/ \E x \in Ids : ReleaseHandle(x)
    \/ \E x \in Ids : Clone(x)
    \/ \E x \in Ids : CloneRememberingOriginalEvent(x)
    \/ \E n \in Ids, x \in Ids \cup {NoEvent} : AssignOriginalEvent(n, x)
    \/ \E a \in Ids, b \in Ids : CopyAssign(a, b)

Spec == Init /\ [][Next]_vars

\* The structure of the event n: its class, type and disabled flag and, in
\* order, the structure of the events its own vector holds.
RECURSIVE Shape(_)
Shape(n) == [class |-> class[n], type |-> type[n], disabled |-> disabled[n],
             events |-> [i \in 1..Len(events[n]) |-> Shape(events[n][i])]]

\* A pointer other than originalEvent holds e.
HasOwner(e) ==
    \/ e \in held
    \/ e \in Range(badSubEvents)
    \/ \E m \in alive : e \in Range(events[m])

\* C3: the originalEvent of CloneRememberingOriginalEvent(e) resolves to e
\* while e is alive and to nothing once e is destroyed, and e is alive
\* exactly as long as a pointer other than originalEvent holds it.
C3_OriginalEventResolvesOrAbsent ==
    \A c \in alive : remembered[c] # NoEvent =>
        /\ Lock(originalEvent[c]) =
              IF remembered[c] \in alive THEN remembered[c] ELSE NoEvent
        /\ remembered[c] \in alive <=> HasOwner(remembered[c])

\* C3 witness: the event a remembering clone was made from is destroyed, and
\* the clone's originalEvent resolves to nothing.
C3_Witness ==
    \E c \in alive :
        /\ remembered[c] # NoEvent
        /\ remembered[c] \notin alive
        /\ Lock(originalEvent[c]) = NoEvent

\* What GetSubEvents reports below the event n stays as it is in a step.
SameBelow(n) ==
    \A m \in OwnedFrom({n}, events) :
        /\ m \in alive'
        /\ type'[m] = type[m]
        /\ disabled'[m] = disabled[m]
        /\ GetSubEvents(m)' = GetSubEvents(m)

\* C2: Clone returns an event of the same structure that shares nothing
\* with the original: as long as the two share no event, adding a
\* sub-event anywhere in the clone leaves the original as it is, and adding
\* one anywhere in the original leaves the clone as it is.
C2_CloneIsIndependent ==
    [][ /\ \A x \in alive, c \in Ids : (c = nextId /\ Clone(x)) => Shape(c)' = Shape(x)'
        /\ \A c \in alive :
              ( /\ cloneOf[c] \in alive
                /\ OwnedFrom({c}, events) \cap OwnedFrom({cloneOf[c]}, events) = {} ) =>
                  \A x \in alive :
                      /\ \A p \in OwnedFrom({c}, events) :
                            PushBackSubEvent(p, x) => SameBelow(cloneOf[c])
                      /\ \A p \in OwnedFrom({cloneOf[c]}, events) :
                            PushBackSubEvent(p, x) => SameBelow(c) ]_vars

Parents(n) == {m \in alive : n \in Range(GetSubEvents(m))}

\* C8: the sub-events relation is a tree: every event is in the sub-events
\* of at most one parent and no event is its own descendant.
C8_SubEventsFormATree ==
    \A n \in alive :
        /\ Cardinality(Parents(n)) <= 1
        /\ n \notin ReportedFrom(Range(GetSubEvents(n)))

\* C10: an event that cannot have sub-events reports no sub-events, and a
\* push_back through the GetSubEvents of one such event shows in the
\* GetSubEvents of no other event.
C10_NoSharedSubEvents ==
    [][ /\ \A n \in alive' : ~ObjectCanHaveSubEvents(n)' => GetSubEvents(n)' = <<>>
        /\ \A p \in alive, x \in alive :
              (PushBackSubEvent(p, x) /\ ~ObjectCanHaveSubEvents(p)) =>
                  \A m \in alive \ {p} : GetSubEvents(m)' = GetSubEvents(m) ]_vars

(***************************************************************************)
(* Preprocessing.  Preprocess(game, scene, eventList, index) is called on  *)
(* every event before the events are compiled, with the list the event is  *)
(* in and its index in that list; the event may change the list.           *)
(***************************************************************************)
\* Mutation of BaseEvent_Preprocess: the event inserts a copy of itself.
BaseEvent_Preprocess_InsertsCopy(eventList, indexOfTheEventInThisList) ==
    SubSeq(eventList, 1, indexOfTheEventInThisList)
    \o SubSeq(eventList, indexOfTheEventInThisList, Len(eventList))

\* BaseEvent::Preprocess does nothing.
BaseEvent_Preprocess(eventList, indexOfTheEventInThisList) == eventList

\* A group event replaces itself by one standard event for every object of
\* the scene's group; the action of the k-th one is about object k.
GroupEvent_Preprocess(eventList, indexOfTheEventInThisList, objects) ==
    LET e == eventList[indexOfTheEventInThisList]
        ForObject(k) ==
            Event("Standard", e.disabled, e.conditions,
                  [j \in 1..Len(e.actions) |-> [e.actions[j] EXCEPT !.parameters = <<k>>]],
                  <<>>)
    IN SubSeq(eventList, 1, indexOfTheEventInThisList - 1)
       \o [k \in 1..objects |-> ForObject(k)]
       \o SubSeq(eventList, indexOfTheEventInThisList + 1, Len(eventList))

Preprocess(eventList, indexOfTheEventInThisList, objects) ==
    IF ClassOf(eventList[indexOfTheEventInThisList].type) = "Group"
    THEN GroupEvent_Preprocess(eventList, indexOfTheEventInThisList, objects)
    ELSE BaseEvent_Preprocess(eventList, indexOfTheEventInThisList)

\* The pass: every event of the list in turn is preprocessed, then the
\* sub-events of the events it left in its place, then the next event.
RECURSIVE PreprocessFrom(_, _, _)
RECURSIVE PreprocessSubEvents(_, _, _, _)
PreprocessSubEvents(l, i, last, objects) ==
    IF i > last THEN l
    ELSE LET sub == IF CanHaveSubEvents(l[i])
                    THEN PreprocessFrom(l[i].events, 1, objects)
                    ELSE l[i].events
         IN PreprocessSubEvents([l EXCEPT ![i] = [l[i] EXCEPT !.events = sub]],
                                i + 1, last, objects)
PreprocessFrom(l, i, objects) ==
    IF i > Len(l) THEN l
    ELSE LET l1 == Preprocess(l, i, objects)
             last == i + Len(l1) - Len(l)
         IN PreprocessFrom(PreprocessSubEvents(l1, i, last, objects), last + 1, objects)

PreprocessEventList(l, objects) == PreprocessFrom(l, 1, objects)

(***************************************************************************)
(* SpecPre: event lists of comments, standard events and group events are  *)
(* built and preprocessed, and the preprocessed list is preprocessed again.*)
(***************************************************************************)
PreLeaves ==
    { Event("Comment", FALSE, <<>>, <<>>, <<>>),
      Event("Standard", FALSE, <<>>, <<>>, <<>>),
      Event("Group", FALSE, <<>>, <<Instruction("SetVar", FALSE, <<0>>)>>, <<>>) }

NoPass == [passes |-> 0, once |-> <<>>, twice |-> <<>>]

InitPre ==
    /\ HeapInit
    /\ list = <<>>
    /\ out = NoPass
    /\ scene \in 0..MaxGroupObjects

PreAddEvent ==
    /\ out.passes = 0
    /\ CountEvents(list) < MaxPreEvents
    /\ \E p \in OpenLists(list), e \in PreLeaves : list' = PushBackAt(list, p, e)
    /\ UNCHANGED <<heapVars, out, scene>>

PreFirstPass ==
    /\ out.passes = 0
    /\ out' = [out EXCEPT !.passes = 1, !.once = PreprocessEventList(list, scene)]
    /\ UNCHANGED <<heapVars, list, scene>>

PreSecondPass ==
    /\ out.passes = 1
    /\ out' = [out EXCEPT !.passes = 2, !.twice = PreprocessEventList(out.once, scene)]
    /\ UNCHANGED <<heapVars, list, scene>>

NextPre == PreAddEvent \/ PreFirstPass \/ PreSecondPass

SpecPre == InitPre /\ [][NextPre]_vars

\* C9: preprocessing a list that has been preprocessed leaves it as it is.
C9_PreprocessIdempotent == out.passes = 2 => out.twice = out.once

\* C9 witness: a list with a group event under a standard event was
\* preprocessed twice, the first pass having put two events in the group
\* event's place.
C9_Witness ==
    /\ out.passes = 2
    /\ scene = 2
    /\ \E p \in Paths(list) : Len(p) = 2 /\ EventAt(list, p).type = "Group"
    /\ CountEvents(out.once) = CountEvents(list) + 1

(***************************************************************************)
(* Serialization.  An XML element is [name, value, children].  The events  *)
(* list writer stores the type and the disabled flag of every event and    *)
(* lets the event write the rest with SaveToXml; the reader creates an     *)
(* event of the stored type, sets its flag and lets it read the rest with  *)
(* LoadFromXml.                                                            *)
(***************************************************************************)
Element(name, value, children) == [name |-> name, value |-> value, children |-> children]

BoolToText(b) == IF b THEN "true" ELSE "false"
TextToBool(t) == t = "true"

HasChild(elem, name) == \E i \in 1..Len(elem.children) : elem.children[i].name = name
FirstChild(elem, name) ==
    elem.children[CHOOSE i \in 1..Len(elem.children) :
                      /\ elem.children[i].name = name
                      /\ \A j \in 1..(i - 1) : elem.children[j].name # name]

\* BaseEvent::SaveToXml writes nothing to eventElem.
BaseEvent_SaveToXml(e, eventElem) == eventElem

\* BaseEvent::LoadFromXml reads nothing from eventElem.
BaseEvent_LoadFromXml(e, eventElem) == e

\* Mutation of SetDisabled: the argument is ignored for its default value.
SetDisabled_IgnoresArgument(e, disable) == [e EXCEPT !.disabled = TRUE]

\* BaseEvent::SetDisabled and BaseEvent::SetType
SetDisabled(e, disable) == [e EXCEPT !.disabled = disable]
SetType(e, type_) == [e EXCEPT !.type = type_]
GetType(e) == e.type

SaveInstruction(name, ins) ==
    Element(name, "",
            << Element("Type", ins.type, <<>>),
               Element("Inverted", BoolToText(ins.inverted), <<>>),
               Element("Parameters", "",
                       [k \in 1..Len(ins.parameters) |->
                           Element("Parameter", ins.parameters[k], <<>>)]) >>)

LoadInstruction(elem) ==
    LET ps == FirstChild(elem, "Parameters").children
    IN Instruction(FirstChild(elem, "Type").value,
                   TextToBool(FirstChild(elem, "Inverted").value),
                   [k \in 1..Len(ps) |-> ps[k].value])

RECURSIVE SaveEventsToXml(_)
RECURSIVE OpenEventsFromXml(_)

\* SaveToXml of the events with conditions, actions and sub-events.
StandardEvent_SaveToXml(e, eventElem) ==
    [eventElem EXCEPT !.children = @ \o
        << Element("Conditions", "",
                   [k \in 1..Len(e.conditions) |-> SaveInstruction("Condition", e.conditions[k])]),
           Element("Actions", "",
                   [k \in 1..Len(e.actions) |-> SaveInstruction("Action", e.actions[k])]) >>
        \o (IF e.events # <<>>
            THEN << Element("Events", "", SaveEventsToXml(e.events)) >>
            ELSE <<>>)]

StandardEvent_LoadFromXml(e, eventElem) ==
    LET cs == FirstChild(eventElem, "Conditions").children
        as == FirstChild(eventElem, "Actions").children
    IN [e EXCEPT !.conditions = [k \in 1..Len(cs) |-> LoadInstruction(cs[k])],
                 !.actions = [k \in 1..Len(as) |-> LoadInstruction(as[k])],
                 !.events = IF HasChild(eventElem, "Events")
                            THEN OpenEventsFromXml(FirstChild(eventElem, "Events").children)
                            ELSE <<>>]

SaveToXml(e, eventElem) ==
    IF ClassOf(e.type) = "Base"
    THEN BaseEvent_SaveToXml(e, eventElem)
    ELSE StandardEvent_SaveToXml(e, eventElem)

LoadFromXml(e, eventElem) ==
    IF ClassOf(e.type) = "Base"
    THEN BaseEvent_LoadFromXml(e, eventElem)
    ELSE StandardEvent_LoadFromXml(e, eventElem)

SaveEventsToXml(l) ==
    [i \in 1..Len(l) |->
        SaveToXml(l[i],
                  Element("Event", "",
                          << Element("Type", GetType(l[i]), <<>>),
                             Element("Disabled", BoolToText(IsDisabled(l[i])), <<>>) >>))]

\* A newly constructed event: enabled, without type, instructions or
\* sub-events.
NewEvent == Event("", FALSE, <<>>, <<>>, <<>>)

OpenEventsFromXml(elems) ==
    [i \in 1..Len(elems) |->
        LoadFromXml(SetDisabled(SetType(NewEvent, FirstChild(elems[i], "Type").value),
                                TextToBool(FirstChild(elems[i], "Disabled").value)),
                    elems[i])]

(***************************************************************************)
(* SpecXml: an event tree is built from comments, group events and         *)
(* standard events with one condition (plain or inverted) and one action,  *)
(* enabled and disabled, nested under standard events; it is saved and     *)
(* loaded back.                                                            *)
(***************************************************************************)
XmlConditions == {Instruction("KeyPressed", inv, <<"Space">>) : inv \in BOOLEAN}
XmlActions == {Instruction("SetVar", FALSE, <<"x", "1">>)}
XmlEvents ==
    { Event(t, d, <<>>, <<>>, <<>>) : t \in {"Comment", "Group"}, d \in BOOLEAN }
    \cup { Event("Standard", d, <<c>>, <<a>>, <<>>) :
              d \in BOOLEAN, c \in XmlConditions, a \in XmlActions }

NoXml == [stage |-> 0, xml |-> <<>>, loaded |-> <<>>]

InitXml ==
    /\ HeapInit
    /\ list = <<>>
    /\ out = NoXml
    /\ scene = 0

\* The list holds one event tree: the first event added is its root and
\* every later one goes below it.
XmlAddEvent ==
    /\ out.stage = 0
    /\ CountEvents(list) < MaxXmlEvents
    /\ \E p \in OpenLists(list), e \in XmlEvents :
          /\ p = <<>> => list = <<>>
          /\ list' = PushBackAt(list, p, e)
    /\ UNCHANGED <<heapVars, out, scene>>

XmlSave ==
    /\ out.stage = 0
    /\ out' = [out EXCEPT !.stage = 1, !.xml = SaveEventsToXml(list)]
    /\ UNCHANGED <<heapVars, list, scene>>

XmlLoad ==
    /\ out.stage = 1
    /\ out' = [out EXCEPT !.stage = 2, !.loaded = OpenEventsFromXml(out.xml)]
    /\ UNCHANGED <<heapVars, list, scene>>

NextXml == XmlAddEvent \/ XmlSave \/ XmlLoad

SpecXml == InitXml /\ [][NextXml]_vars

\* C7: loading what saving an event list wrote gives an equal list: the
\* same types, disabled flags, instructions (type, parameters, inversion)
\* and sub-events, in order and at every depth.
C7_SaveLoadRoundTrip == out.stage = 2 => out.loaded = list

\* C7 witness: a disabled standard event with an inverted condition and an
\* action, and with three sub-events, a comment, a group event and an
\* enabled standard event among them, was saved and loaded back.
C7_Witness ==
    /\ out.stage = 2
    /\ Len(list) = 1
    /\ list[1].disabled
    /\ \E k \in 1..Len(list[1].conditions) : list[1].conditions[k].inverted
    /\ list[1].actions # <<>>
    /\ Len(list[1].events) = 3
    /\ \E i, j, k \in 1..3 :
          /\ list[1].events[i].type = "Comment"
          /\ list[1].events[j].type = "Group"
          /\ list[1].events[k].type = "Standard" /\ ~list[1].events[k].disabled
    /\ Len(out.xml) = 1

====
